---- MODULE Spec2Model ----
(***************************************************************************)
(* Session / game coordination layer of the online chess server            *)
(* (src/src/main.rs).  Every websocket connection is an actor              *)
(* (ChessWebSocket) that runs its handlers one at a time; actors of        *)
(* different connections run on different worker threads and share the     *)
(* three registries of AppState, each behind its own std::sync::Mutex.     *)
(*                                                                         *)
(* A handler is cut into steps at the places where it calls                *)
(* Mutex::lock(): a step is the code from one lock() call up to the next   *)
(* one (or to the end of the handler).  pc[s] is the position of the       *)
(* handler of session s, lock[l] the session holding guard l.              *)
(*                                                                         *)
(* The chess crate (board, legality, side to move) is an external          *)
(* library.  A board is abstracted to its material and its status; the     *)
(* board an accepted move leads to is an input of the move request.        *)
(***************************************************************************)
EXTENDS Integers, Sequences, FiniteSets, TLC

\* ------------------------------------------------------------------ bounds

\* Number of client requests (create, join, move, get_moves, time_sync,
\* unknown, close) processed in one behaviour.
MaxOps == 4

\* Number of times the wall clock advances in one behaviour.
MaxTicks == 2

\* ------------------------------------------------------- program constants

DefaultStartMinutes == 15

DefaultIncrementSeconds == 10

MsPerSecond == 1000

SecondsPerMinute == 60

\* --------------------------------------------------------------- universes

\* Holder of a free guard / board of no move.
None == "none"

\* Rust's Option<T>: None is <<>>, Some(x) is <<x>>.
Nothing == <<>>

Some(x) == <<x>>

IsSome(o) == o # Nothing

\* Option::unwrap_or
unwrap_or(o, d) == IF IsSome(o) THEN o[1] ELSE d

\* self.game_id of a session that is in no game (String::new()).
EmptyId == ""

Sessions == {"s1", "s2"}

\* The ids Uuid::new_v4() hands out, in the order it hands them out.
GameIdSeq == <<"g1", "g2">>

GameIds == {GameIdSeq[i] : i \in 1..Len(GameIdSeq)}

Guards == {"games", "connections", "sessions"}

Colors == {"white", "black"}

\* The clocks, the increment and the time settings of a request are u64.  A
\* u64 is held as the integer congruent to it modulo 2^64 that is nearest
\* to 0, so that + - * on the integers are the wrapping operations of u64:
\* u64::MAX is held as -1 and 2^64 - 1000 as -1000.
MaxU64 == -1

\* The u64 is 2^63 or more.
High64(x) == x < 0

\* a > b on u64.
Gt64(a, b) ==
    IF High64(a) = High64(b) THEN a > b ELSE High64(a)

\* <<start_time_minutes, increment_seconds>> of a create request: both
\* zero, or no allotment (the default applies) with the largest increment a
\* request can carry.
CreateInputs == {<<Some(0), Some(0)>>, <<Nothing, Some(MaxU64)>>}

\* Milliseconds by which the wall clock may advance in one step: half of
\* the default allotment.
TickSteps == {450000}

\* ------------------------------------------------------------ rules engine

Kit(p, n, b, r, q) == [pawns |-> p, knights |-> n, bishops |-> b, rooks |-> r, queens |-> q]

FullKit == Kit(8, 2, 2, 2, 1)

BareKing == Kit(0, 0, 0, 0, 0)

\* The boards of the model, by name: material of both sides and the status
\* the chess crate reports for the side to move.
BoardNames == {"start", "KQvK", "KvK"}

\* The boards on which the side to move is checkmated (here with all the
\* material on the board).
MatedBoards == {"mate"}

Board(name) ==
    CASE name = "start" -> [white |-> FullKit, black |-> FullKit, status |-> "ongoing"]
      [] name = "KQvK"  -> [white |-> Kit(0, 0, 0, 0, 1), black |-> BareKing, status |-> "ongoing"]
      [] name = "KvKQ"  -> [white |-> BareKing, black |-> Kit(0, 0, 0, 0, 1), status |-> "ongoing"]
      [] name = "KvK"   -> [white |-> BareKing, black |-> BareKing, status |-> "ongoing"]
      [] name = "mate"  -> [white |-> FullKit, black |-> FullKit, status |-> "checkmate"]

KitLeq(a, b) ==
    /\ a.pawns <= b.pawns
    /\ a.knights <= b.knights
    /\ a.bishops <= b.bishops
    /\ a.rooks <= b.rooks
    /\ a.queens <= b.queens

\* A make_move that accepts every board while the game is not over.
make_moveAnyBoard(board, to) ==
    /\ Board(board).status \notin {"checkmate", "stalemate"}
    /\ to \in BoardNames \cup MatedBoards

\* Game::make_move of the chess crate: refused once the game is over
\* (checkmate, stalemate) and for an illegal move.  A legal move never adds
\* material to either side.
make_move(board, to) ==
    /\ Board(board).status \notin {"checkmate", "stalemate"}
    /\ to \in BoardNames \cup MatedBoards
    /\ KitLeq(Board(to).white, Board(board).white)
    /\ KitLeq(Board(to).black, Board(board).black)

\* A side_to_move that a move leaves as it was.
OppositeSame(c) == c

Opposite(c) == IF c = "white" THEN "black" ELSE "white"

\* Game::new()
NewGame == [board |-> "start", side_to_move |-> "white"]

OnlyKing(k) ==
    k.pawns = 0 /\ k.knights = 0 /\ k.bishops = 0 /\ k.rooks = 0 /\ k.queens = 0

OneMinorOnly(k) ==
    \/ k.pawns = 0 /\ k.knights = 0 /\ k.bishops = 1 /\ k.rooks = 0 /\ k.queens = 0
    \/ k.pawns = 0 /\ k.knights = 1 /\ k.bishops = 0 /\ k.rooks = 0 /\ k.queens = 0

\* has_insufficient_material: true only when one side has a bare king and
\* the other a bare king or a single minor piece.
has_insufficient_material(board) ==
    LET w == Board(board).white
        b == Board(board).black
    IN  IF OnlyKing(w)
        THEN OnlyKing(b) \/ OneMinorOnly(b)
        ELSE IF OnlyKing(b)
             THEN OnlyKing(w) \/ OneMinorOnly(w)
             ELSE FALSE

\* get_game_status
get_game_status(game, game_result) ==
    CASE game_result \in {Some("WhiteCheckmates"), Some("BlackResigns")} -> "white_wins"
      [] game_result \in {Some("BlackCheckmates"), Some("WhiteResigns")} -> "black_wins"
      [] game_result \in {Some("Stalemate"), Some("DrawAccepted"), Some("DrawDeclared")} -> "draw"
      [] game_result = Nothing ->
            IF Board(game.board).status \in {"check", "checkmate"}
            THEN "check"
            ELSE IF game.side_to_move = "white" THEN "white_turn" ELSE "black_turn"

\* ------------------------------------------------------------------- state

VARIABLES
    pc,          \* position of each session's actor
    game_id,     \* ChessWebSocket.game_id
    color,       \* ChessWebSocket.color
    sessions,    \* AppState.sessions (the ids that have a delivery handle)
    connections, \* AppState.connections: game id -> list of session ids
    games,       \* AppState.games: game id -> GameState
    lock,        \* holder of each registry guard
    loc,         \* locals of the handler a session is running
    out,         \* messages pushed by the handler a session is running, and by
                 \* the handler that completed last
    delivered,   \* per recipient and game: commit number of the last broadcast pushed
    commits,     \* per game: number of committed mutations that broadcast
    nextGame,    \* number of game ids generated
    now,         \* std::time::Instant::now(), in ms
    ticks,
    ops

vars == <<pc, game_id, color, sessions, connections, games, lock, loc, out,
          delivered, commits, nextGame, now, ticks, ops>>

\* Locals of a handler: the game id it works on, the create request's time
\* settings, the board a move asks for, the message to broadcast, the
\* broadcast's copy of the connection list, and the game a join has left
\* before it looks its target up.
NoLoc == [gid |-> EmptyId, start_time_minutes |-> 0, increment_seconds |-> 0,
          mv |-> None, msg |-> Nothing, ids |-> <<>>, old_game_id |-> EmptyId]

EmptyMap == [x \in {} |-> None]

Put(f, k, v) == [x \in DOMAIN f \cup {k} |-> IF x = k THEN v ELSE f[x]]

Remove(f, k) == [x \in DOMAIN f \ {k} |-> f[x]]

\* Vec::retain(|id| id != s)
Retain(list, s) == SelectSeq(list, LAMBDA id : id # s)

Contains(list, s) == \E i \in 1..Len(list) : list[i] = s

Init ==
    /\ pc = [s \in Sessions |-> "new"]
    /\ game_id = [s \in Sessions |-> EmptyId]
    /\ color = [s \in Sessions |-> Nothing]
    /\ sessions = {}
    /\ connections = EmptyMap
    /\ games = EmptyMap
    /\ lock = [l \in Guards |-> None]
    /\ loc = [s \in Sessions |-> NoLoc]
    /\ out = [s \in Sessions |-> <<>>]
    /\ delivered = [s \in Sessions |-> [g \in GameIds |-> 0]]
    /\ commits = [g \in GameIds |-> 0]
    /\ nextGame = 0
    /\ now = 0
    /\ ticks = 0
    /\ ops = 0

\* ------------------------------------------------------------------ guards

\* A lock() that never waits for the games guard.
AvailableGamesUnguarded(l) == l = "games" \/ lock[l] = None

\* Mutex::lock() returns once no other thread holds the guard.
Available(l) == lock[l] = None

Hold(s, ls) == [l \in Guards |-> IF l \in ls THEN s ELSE lock[l]]

\* State of a guard whose holder panicked: every later lock().unwrap() on it
\* panics.
Poisoned == "poisoned"

\* The guards after the handler of s panicked holding those of ls and
\* whatever it held before: unwinding drops them poisoned.
Poison(s, ls) == [l \in Guards |-> IF l \in ls \/ lock[l] = s THEN Poisoned ELSE lock[l]]

\* Drop of every guard in ls that s holds.
Release(lk, s, ls) == [l \in Guards |-> IF l \in ls /\ lk[l] = s THEN None ELSE lk[l]]

\* ---------------------------------------------------------------- messages

\* A ServerMessage pushed to session `to`: by ctx.text (a direct reply) or by
\* do_send to the recipient's mailbox (a broadcast; stamp is the commit
\* number of the mutation it reports).
Message(to, type, game, info, stamp) ==
    [to |-> to, type |-> type, game |-> game, info |-> info, stamp |-> stamp]

ErrorMsg(s, game, text) == Message(s, "error", game, text, 0)

StartHandler(s) ==
    /\ pc[s] = "idle"
    /\ ops < MaxOps
    /\ ops' = ops + 1

\* Positions at which a session runs no handler.
Resting == {"new", "idle", "closed", "panicked"}

\* The record of pushed messages once s has pushed all of `msgs` in its
\* handler; when that handler is `finished`, the records of the handlers that
\* completed before it are dropped.
Outputs(s, msgs, finished) ==
    [x \in Sessions |->
        IF x = s THEN msgs
        ELSE IF finished /\ pc[x] \in Resting THEN <<>>
        ELSE out[x]]

\* The handler of s panics, having pushed `msgs`: the actor is gone without
\* running its stopping handler.
Panic(s, msgs) ==
    /\ pc' = [pc EXCEPT ![s] = "panicked"]
    /\ loc' = [loc EXCEPT ![s] = NoLoc]
    /\ out' = Outputs(s, msgs, TRUE)

\* The handler of s returns, having pushed `msgs` in all.
Finish(s, msgs) ==
    /\ pc' = [pc EXCEPT ![s] = "idle"]
    /\ loc' = [loc EXCEPT ![s] = NoLoc]
    /\ out' = Outputs(s, msgs, TRUE)

\* ---------------------------------------------------------------- started

\* Actor::started: the delivery handle is registered.
Started(s) ==
    /\ pc[s] = "new"
    /\ Available("sessions")
    /\ sessions' = sessions \cup {s}
    /\ pc' = [pc EXCEPT ![s] = "idle"]
    /\ UNCHANGED <<game_id, color, connections, games, lock, loc, out,
                   delivered, commits, nextGame, now, ticks, ops>>

\* ----------------------------------------------------------- handle_create

\* A create that seats the creator as black.
NewGameStateCreatorBlack(s, start_time_minutes, increment_seconds) ==
    [game |-> NewGame,
     white_player |-> Nothing,
     black_player |-> Some(s),
     white_time_ms |-> start_time_minutes * SecondsPerMinute * MsPerSecond,
     black_time_ms |-> start_time_minutes * SecondsPerMinute * MsPerSecond,
     increment_ms |-> increment_seconds * MsPerSecond,
     last_move_time |-> Nothing,
     active_player |-> Some("white"),
     game_result |-> Nothing]

NewGameState(s, start_time_minutes, increment_seconds) ==
    [game |-> NewGame,
     white_player |-> Some(s),
     black_player |-> Nothing,
     white_time_ms |-> start_time_minutes * SecondsPerMinute * MsPerSecond,
     black_time_ms |-> start_time_minutes * SecondsPerMinute * MsPerSecond,
     increment_ms |-> increment_seconds * MsPerSecond,
     last_move_time |-> Nothing,
     active_player |-> Some("white"),
     game_result |-> Nothing]

\* handle_create up to the games guard: a fresh id becomes the session's
\* game (the game the session was in is not left), and the session is pushed
\* on the new id's connection list.
HandleCreate(s, minutes, seconds) ==
    /\ StartHandler(s)
    /\ nextGame < Len(GameIdSeq)
    /\ Available("connections")
    /\ LET gid == GameIdSeq[nextGame + 1]
           old == IF gid \in DOMAIN connections THEN connections[gid] ELSE <<>>
       IN  /\ game_id' = [game_id EXCEPT ![s] = gid]
           /\ connections' = Put(connections, gid, Append(old, s))
           /\ loc' = [loc EXCEPT ![s] =
                        [NoLoc EXCEPT !.gid = gid,
                                      !.start_time_minutes = unwrap_or(minutes, DefaultStartMinutes),
                                      !.increment_seconds = unwrap_or(seconds, DefaultIncrementSeconds)]]
    /\ nextGame' = nextGame + 1
    /\ color' = [color EXCEPT ![s] = Some("white")]
    /\ lock' = Hold(s, {"connections"})
    /\ pc' = [pc EXCEPT ![s] = "create_games"]
    /\ out' = Outputs(s, <<>>, FALSE)
    /\ UNCHANGED <<sessions, games, delivered, commits, now, ticks>>

\* handle_create from the games guard on: the GameState is inserted, the
\* creator gets game_created, both guards are dropped on return.
CreateGames(s) ==
    /\ pc[s] = "create_games"
    /\ Available("games")
    /\ LET gid == loc[s].gid
           gs == NewGameState(s, loc[s].start_time_minutes, loc[s].increment_seconds)
           status == IF gs.black_player = Nothing THEN "waiting_for_opponent" ELSE "in_progress"
       IN  /\ games' = Put(games, gid, gs)
           /\ Finish(s, Append(out[s], Message(s, "game_created", gid, status, 0)))
    /\ lock' = Release(lock, s, {"connections", "games"})
    /\ UNCHANGED <<game_id, color, sessions, connections, delivered, commits,
                   nextGame, now, ticks, ops>>

\* ---------------------------------------------------------------- stopping

\* A leave that forfeits the game for the player who vacates a seat.
ClearSeatsForfeits(gm, gid, s) ==
    IF gid \in DOMAIN gm
    THEN [gm EXCEPT ![gid] =
            [@ EXCEPT !.white_player = IF @ = Some(s) THEN Nothing ELSE @,
                      !.black_player = IF @ = Some(s) THEN Nothing ELSE @,
                      !.game_result =
                          IF gm[gid].white_player = Some(s) THEN Some("WhiteResigns")
                          ELSE IF gm[gid].black_player = Some(s) THEN Some("BlackResigns")
                          ELSE @]]
    ELSE gm

\* Seats of game gid held by s are vacated (when the game exists).
ClearSeats(gm, gid, s) ==
    IF gid \in DOMAIN gm
    THEN [gm EXCEPT ![gid] =
            [@ EXCEPT !.white_player = IF @ = Some(s) THEN Nothing ELSE @,
                      !.black_player = IF @ = Some(s) THEN Nothing ELSE @]]
    ELSE gm

\* Actor::stopping up to the first games guard: the session leaves the
\* connection list of self.game_id; an emptied list is removed.
Stopping(s) ==
    /\ StartHandler(s)
    /\ out' = Outputs(s, <<>>, FALSE)
    /\ IF game_id[s] = EmptyId
       THEN /\ pc' = [pc EXCEPT ![s] = "stop_sessions"]
            /\ UNCHANGED <<connections, lock>>
       ELSE /\ Available("connections")
            /\ lock' = Hold(s, {"connections"})
            /\ IF game_id[s] \in DOMAIN connections
               THEN LET kept == Retain(connections[game_id[s]], s)
                    IN  IF kept = <<>>
                        THEN /\ connections' = Remove(connections, game_id[s])
                             /\ pc' = [pc EXCEPT ![s] = "stop_remove_game"]
                        ELSE /\ connections' = [connections EXCEPT ![game_id[s]] = kept]
                             /\ pc' = [pc EXCEPT ![s] = "stop_seats"]
               ELSE /\ pc' = [pc EXCEPT ![s] = "stop_seats"]
                    /\ UNCHANGED connections
    /\ UNCHANGED <<game_id, color, sessions, games, loc, delivered, commits,
                   nextGame, now, ticks>>

\* stopping, the last member left: the GameState is removed under the games
\* guard, which is dropped at the end of the block.
StopRemoveGame(s) ==
    /\ pc[s] = "stop_remove_game"
    /\ Available("games")
    /\ games' = Remove(games, game_id[s])
    /\ pc' = [pc EXCEPT ![s] = "stop_seats"]
    /\ UNCHANGED <<game_id, color, sessions, connections, lock, loc, out,
                   delivered, commits, nextGame, now, ticks, ops>>

\* stopping: the seats the session holds in self.game_id are vacated; the
\* connections and games guards are dropped at the end of the block.
StopSeats(s) ==
    /\ pc[s] = "stop_seats"
    /\ Available("games")
    /\ games' = ClearSeats(games, game_id[s], s)
    /\ lock' = Release(lock, s, {"connections", "games"})
    /\ pc' = [pc EXCEPT ![s] = "stop_sessions"]
    /\ UNCHANGED <<game_id, color, sessions, connections, loc, out,
                   delivered, commits, nextGame, now, ticks, ops>>

\* stopping: the delivery handle is removed; the actor stops.
StopSessions(s) ==
    /\ pc[s] = "stop_sessions"
    /\ Available("sessions")
    /\ sessions' = sessions \ {s}
    /\ pc' = [pc EXCEPT ![s] = "closed"]
    /\ out' = Outputs(s, out[s], TRUE)
    /\ UNCHANGED <<game_id, color, connections, games, lock, loc,
                   delivered, commits, nextGame, now, ticks, ops>>

\* -------------------------------------------------------------------- time

\* Time passes.  Instant::now() is only ever compared with a stored
\* last_move_time, so time is let pass only while some game's clock runs.
Tick(d) ==
    /\ ticks < MaxTicks
    /\ \E g \in DOMAIN games : IsSome(games[g].last_move_time)
    /\ ticks' = ticks + 1
    /\ now' = now + d
    /\ UNCHANGED <<pc, game_id, color, sessions, connections, games, lock, loc,
                   out, delivered, commits, nextGame, ops>>

\* ------------------------------------------------------- broadcast_to_game

\* A recipient list that skips the sender whatever the message.
RecipientsSkipSender(s, ids, type) ==
    SelectSeq(ids, LAMBDA id : id # s /\ id \in sessions)

\* The sessions of the copied connection list a broadcast is pushed to, in
\* list order: the sender is skipped for "joined" and "game_created", and so
\* is an id with no delivery handle.
Recipients(s, ids, type) ==
    SelectSeq(ids, LAMBDA id :
        /\ ~(id = s /\ type \in {"joined", "game_created"})
        /\ id \in sessions)

\* broadcast_to_game up to the sessions guard: the connection list of the
\* game is copied under the connections guard; without a list the function
\* returns (and the caller with it).
BroadcastConnections(s) ==
    /\ pc[s] = "broadcast_connections"
    /\ Available("connections")
    /\ LET gid == loc[s].msg[1].game
       IN  IF gid \in DOMAIN connections
           THEN /\ loc' = [loc EXCEPT ![s].ids = connections[gid]]
                /\ lock' = Hold(s, {"connections"})
                /\ pc' = [pc EXCEPT ![s] = "broadcast_sessions"]
                /\ UNCHANGED out
           ELSE /\ lock' = Release(lock, s, {"games"})
                /\ Finish(s, out[s])
    /\ UNCHANGED <<game_id, color, sessions, connections, games,
                   delivered, commits, nextGame, now, ticks, ops>>

\* broadcast_to_game from the sessions guard on: the handles are copied, both
\* guards dropped, and the message is pushed to every recipient.  The caller
\* returns, which drops the games guard handle_move still holds.
BroadcastSessions(s) ==
    /\ pc[s] = "broadcast_sessions"
    /\ Available("sessions")
    /\ LET m == loc[s].msg[1]
           to == Recipients(s, loc[s].ids, m.type)
       IN  /\ Finish(s, out[s] \o
                        [i \in 1..Len(to) |-> Message(to[i], m.type, m.game, m.info, m.stamp)])
           /\ delivered' = [r \in Sessions |->
                              IF Contains(to, r) /\ m.stamp > 0
                              THEN [delivered[r] EXCEPT ![m.game] = m.stamp]
                              ELSE delivered[r]]
    /\ lock' = Release(lock, s, {"connections", "sessions", "games"})
    /\ UNCHANGED <<game_id, color, sessions, connections, games, commits,
                   nextGame, now, ticks, ops>>

\* ------------------------------------------------------------- handle_join

\* handle_join up to the first games guard.  Without a game id the request
\* fails; a session that is in a game first leaves that game's connection
\* list (the list stays, even empty).
HandleJoin(s, target) ==
    /\ StartHandler(s)
    /\ IF target = Nothing
       THEN /\ Finish(s, <<ErrorMsg(s, EmptyId, "Game ID is required to join a game")>>)
            /\ UNCHANGED <<connections, lock>>
       ELSE /\ out' = Outputs(s, <<>>, FALSE)
            /\ loc' = [loc EXCEPT ![s] = [NoLoc EXCEPT !.gid = target[1],
                                                        !.old_game_id = game_id[s]]]
            /\ IF game_id[s] # EmptyId
               THEN /\ Available("connections")
                    /\ connections' =
                         IF game_id[s] \in DOMAIN connections
                         THEN [connections EXCEPT ![game_id[s]] = Retain(@, s)]
                         ELSE connections
                    /\ lock' = Hold(s, {"connections"})
                    /\ pc' = [pc EXCEPT ![s] = "join_leave"]
               ELSE /\ pc' = [pc EXCEPT ![s] = "join_lookup"]
                    /\ UNCHANGED <<connections, lock>>
    /\ UNCHANGED <<game_id, color, sessions, games, delivered, commits,
                   nextGame, now, ticks>>

\* A leave block that keeps the seats of the old game.
JoinLeaveKeepsSeat(s) ==
    /\ pc[s] = "join_leave"
    /\ Available("games")
    /\ games' = games
    /\ lock' = Release(lock, s, {"connections", "games"})
    /\ game_id' = [game_id EXCEPT ![s] = EmptyId]
    /\ color' = [color EXCEPT ![s] = Nothing]
    /\ pc' = [pc EXCEPT ![s] = "join_lookup"]
    /\ UNCHANGED <<sessions, connections, loc, out, delivered, commits,
                   nextGame, now, ticks, ops>>

\* handle_join, leaving the old game: its seats held by the session are
\* vacated, both guards dropped, self.game_id and self.color reset.
JoinLeave(s) ==
    /\ pc[s] = "join_leave"
    /\ Available("games")
    /\ games' = ClearSeats(games, game_id[s], s)
    /\ lock' = Release(lock, s, {"connections", "games"})
    /\ game_id' = [game_id EXCEPT ![s] = EmptyId]
    /\ color' = [color EXCEPT ![s] = Nothing]
    /\ pc' = [pc EXCEPT ![s] = "join_lookup"]
    /\ UNCHANGED <<sessions, connections, loc, out, delivered, commits,
                   nextGame, now, ticks, ops>>

\* A seat assignment that hands out the black seat whenever the white one
\* is taken, whoever sits there.
FreeSeatOverwrites(gs) ==
    IF gs.white_player = Nothing THEN Some("white") ELSE Some("black")

\* A seat assignment that looks at the black seat first.
FreeSeatBlackFirst(gs) ==
    IF gs.black_player = Nothing THEN Some("black")
    ELSE IF gs.white_player = Nothing THEN Some("white")
    ELSE Nothing

\* The seat handle_join gives: white when free, else black when free.
FreeSeat(gs) ==
    IF gs.white_player = Nothing THEN Some("white")
    ELSE IF gs.black_player = Nothing THEN Some("black")
    ELSE Nothing

\* handle_join under the games guard: the target is looked up and a seat
\* assigned; a missing or full game is an error to the requester.
JoinLookup(s) ==
    /\ pc[s] = "join_lookup"
    /\ Available("games")
    /\ LET gid == loc[s].gid
       IN  IF gid \notin DOMAIN games
           THEN /\ Finish(s, Append(out[s], ErrorMsg(s, gid, "Game not found")))
                /\ UNCHANGED <<games, game_id, color, lock>>
           ELSE IF FreeSeat(games[gid]) = Nothing
           THEN /\ Finish(s, Append(out[s], ErrorMsg(s, gid, "Game is full")))
                /\ UNCHANGED <<games, game_id, color, lock>>
           ELSE /\ games' = [games EXCEPT ![gid] =
                               IF FreeSeat(@) = Some("white")
                               THEN [@ EXCEPT !.white_player = Some(s)]
                               ELSE [@ EXCEPT !.black_player = Some(s)]]
                /\ game_id' = [game_id EXCEPT ![s] = gid]
                /\ color' = [color EXCEPT ![s] = FreeSeat(games[gid])]
                /\ lock' = Hold(s, {"games"})
                /\ pc' = [pc EXCEPT ![s] = "join_connections"]
                /\ loc' = [loc EXCEPT ![s].old_game_id = EmptyId]
                /\ UNCHANGED out
    /\ UNCHANGED <<sessions, connections, delivered, commits, nextGame, now,
                   ticks, ops>>

\* A join that never starts the clock.
JoinConnectionsNoClock(s) ==
    /\ pc[s] = "join_connections"
    /\ Available("connections")
    /\ LET gid == loc[s].gid
           gs == games[gid]
           stamp == commits[gid] + 1
       IN  /\ connections' =
                IF gid \in DOMAIN connections
                THEN IF Contains(connections[gid], s)
                     THEN connections
                     ELSE [connections EXCEPT ![gid] = Append(@, s)]
                ELSE Put(connections, gid, <<s>>)
           /\ games' = games
           /\ out' = Outputs(s, Append(out[s], Message(s, "joined", gid, "in_progress", 0)), FALSE)
           /\ commits' = [commits EXCEPT ![gid] = stamp]
           /\ loc' = [loc EXCEPT ![s].msg =
                        Some([type |-> "player_joined", game |-> gid,
                              info |-> "in_progress", stamp |-> stamp])]
    /\ lock' = Release(lock, s, {"games", "connections"})
    /\ pc' = [pc EXCEPT ![s] = "broadcast_connections"]
    /\ UNCHANGED <<game_id, color, sessions, delivered, nextGame, now, ticks, ops>>

\* A join that pushes the session onto the list without looking for it.
JoinConnectionsAlwaysPush(s) ==
    /\ pc[s] = "join_connections"
    /\ Available("connections")
    /\ LET gid == loc[s].gid
           gs == games[gid]
           stamp == commits[gid] + 1
       IN  /\ connections' =
                IF gid \in DOMAIN connections
                THEN [connections EXCEPT ![gid] = Append(@, s)]
                ELSE Put(connections, gid, <<s>>)
           /\ games' =
                IF IsSome(gs.black_player) /\ IsSome(gs.white_player)
                THEN [games EXCEPT ![gid].last_move_time = Some(now)]
                ELSE games
           /\ out' = Outputs(s, Append(out[s], Message(s, "joined", gid, "in_progress", 0)), FALSE)
           /\ commits' = [commits EXCEPT ![gid] = stamp]
           /\ loc' = [loc EXCEPT ![s].msg =
                        Some([type |-> "player_joined", game |-> gid,
                              info |-> "in_progress", stamp |-> stamp])]
    /\ lock' = Release(lock, s, {"games", "connections"})
    /\ pc' = [pc EXCEPT ![s] = "broadcast_connections"]
    /\ UNCHANGED <<game_id, color, sessions, delivered, nextGame, now, ticks, ops>>

\* handle_join from the connections guard on (the games guard is held): the
\* session is added to the list, the clock starts when both seats are taken,
\* the joiner gets "joined", both guards are dropped and player_joined is
\* handed to broadcast_to_game.
JoinConnections(s) ==
    /\ pc[s] = "join_connections"
    /\ Available("connections")
    /\ LET gid == loc[s].gid
           gs == games[gid]
           stamp == commits[gid] + 1
       IN  /\ connections' =
                IF gid \in DOMAIN connections
                THEN IF Contains(connections[gid], s)
                     THEN connections
                     ELSE [connections EXCEPT ![gid] = Append(@, s)]
                ELSE Put(connections, gid, <<s>>)
           /\ games' =
                IF IsSome(gs.black_player) /\ IsSome(gs.white_player)
                THEN [games EXCEPT ![gid].last_move_time = Some(now)]
                ELSE games
           /\ out' = Outputs(s, Append(out[s], Message(s, "joined", gid, "in_progress", 0)), FALSE)
           /\ commits' = [commits EXCEPT ![gid] = stamp]
           /\ loc' = [loc EXCEPT ![s].msg =
                        Some([type |-> "player_joined", game |-> gid,
                              info |-> "in_progress", stamp |-> stamp])]
    /\ lock' = Release(lock, s, {"games", "connections"})
    /\ pc' = [pc EXCEPT ![s] = "broadcast_connections"]
    /\ UNCHANGED <<game_id, color, sessions, delivered, nextGame, now, ticks, ops>>

\* ------------------------------------------------------------- clock debit

\* Result recorded when `flagged` runs out of time on `board`.
FlagResult(board, flagged) ==
    IF has_insufficient_material(board)
    THEN Some("DrawDeclared")
    ELSE IF flagged = "white" THEN Some("WhiteResigns") ELSE Some("BlackResigns")

\* handle_move's timer update for the player who just moved: the elapsed
\* time is charged and the increment added, or the clock is zeroed and the
\* result set.
DebitOnMove(gs, player_color, elapsed) ==
    IF player_color = "white"
    THEN IF Gt64(gs.white_time_ms, elapsed)
         THEN [gs EXCEPT !.white_time_ms = gs.white_time_ms - elapsed + gs.increment_ms]
         ELSE [gs EXCEPT !.white_time_ms = 0,
                         !.game_result = FlagResult(gs.game.board, "white")]
    ELSE IF Gt64(gs.black_time_ms, elapsed)
         THEN [gs EXCEPT !.black_time_ms = gs.black_time_ms - elapsed + gs.increment_ms]
         ELSE [gs EXCEPT !.black_time_ms = 0,
                         !.game_result = FlagResult(gs.game.board, "black")]

\* A timer update on time_sync that credits the increment like a move does.
DebitOnSyncAddsIncrement(gs, elapsed) ==
    IF gs.active_player = Some("white")
    THEN IF Gt64(gs.white_time_ms, elapsed)
         THEN [gs EXCEPT !.white_time_ms = gs.white_time_ms - elapsed + gs.increment_ms]
         ELSE [gs EXCEPT !.white_time_ms = 0,
                         !.game_result = FlagResult(gs.game.board, "white")]
    ELSE IF gs.active_player = Some("black")
    THEN IF Gt64(gs.black_time_ms, elapsed)
         THEN [gs EXCEPT !.black_time_ms = gs.black_time_ms - elapsed + gs.increment_ms]
         ELSE [gs EXCEPT !.black_time_ms = 0,
                         !.game_result = FlagResult(gs.game.board, "black")]
    ELSE gs

\* A timer update on time_sync that lets a clock run down to exactly 0
\* without setting the result.
DebitOnSyncLate(gs, elapsed) ==
    IF gs.active_player = Some("white")
    THEN IF Gt64(gs.white_time_ms, elapsed) \/ gs.white_time_ms = elapsed
         THEN [gs EXCEPT !.white_time_ms = gs.white_time_ms - elapsed]
         ELSE [gs EXCEPT !.white_time_ms = 0,
                         !.game_result = FlagResult(gs.game.board, "white")]
    ELSE IF gs.active_player = Some("black")
    THEN IF Gt64(gs.black_time_ms, elapsed) \/ gs.black_time_ms = elapsed
         THEN [gs EXCEPT !.black_time_ms = gs.black_time_ms - elapsed]
         ELSE [gs EXCEPT !.black_time_ms = 0,
                         !.game_result = FlagResult(gs.game.board, "black")]
    ELSE gs

\* handle_time_sync's timer update for the stored active player.
DebitOnSync(gs, elapsed) ==
    IF gs.active_player = Some("white")
    THEN IF Gt64(gs.white_time_ms, elapsed)
         THEN [gs EXCEPT !.white_time_ms = gs.white_time_ms - elapsed]
         ELSE [gs EXCEPT !.white_time_ms = 0,
                         !.game_result = FlagResult(gs.game.board, "white")]
    ELSE IF gs.active_player = Some("black")
    THEN IF Gt64(gs.black_time_ms, elapsed)
         THEN [gs EXCEPT !.black_time_ms = gs.black_time_ms - elapsed]
         ELSE [gs EXCEPT !.black_time_ms = 0,
                         !.game_result = FlagResult(gs.game.board, "black")]
    ELSE gs

\* The color of the seat s holds in gs (white is looked at first).
SeatColor(gs, s) ==
    IF gs.white_player = Some(s) THEN Some("white")
    ELSE IF gs.black_player = Some(s) THEN Some("black")
    ELSE Nothing

\* ------------------------------------------------------------- handle_move

\* A move request: empty origin or destination text, text that names no
\* square, an origin square with no piece on it, or the board the move would
\* lead to.
MoveInputs == {"empty", "badsquare", "nopiece"} \cup BoardNames

\* handle_move without its turn check.
MoveRefusalNoTurnCheck(s, mv) ==
    IF game_id[s] = EmptyId THEN Some("You are not in a game")
    ELSE IF mv = "empty" THEN Some("Invalid move format")
    ELSE IF game_id[s] \notin DOMAIN games THEN Some("Game not found")
    ELSE IF IsSome(games[game_id[s]].game_result) THEN Some("Game has already ended")
    ELSE IF mv = "nopiece" THEN Some("No piece at the selected square")
    ELSE Nothing

\* handle_move without its check of game_result.
MoveRefusalNoGameOver(s, mv) ==
    IF game_id[s] = EmptyId THEN Some("You are not in a game")
    ELSE IF mv = "empty" THEN Some("Invalid move format")
    ELSE IF game_id[s] \notin DOMAIN games THEN Some("Game not found")
    ELSE IF SeatColor(games[game_id[s]], s) # Some(games[game_id[s]].game.side_to_move)
         THEN Some("It's not your turn")
    ELSE IF mv = "nopiece" THEN Some("No piece at the selected square")
    ELSE Nothing

\* The error handle_move answers before it tries the move (Nothing: none).
MoveRefusal(s, mv) ==
    IF game_id[s] = EmptyId THEN Some("You are not in a game")
    ELSE IF mv = "empty" THEN Some("Invalid move format")
    ELSE IF game_id[s] \notin DOMAIN games THEN Some("Game not found")
    ELSE IF IsSome(games[game_id[s]].game_result) THEN Some("Game has already ended")
    ELSE IF SeatColor(games[game_id[s]], s) # Some(games[game_id[s]].game.side_to_move)
         THEN Some("It's not your turn")
    ELSE IF mv = "nopiece" THEN Some("No piece at the selected square")
    ELSE Nothing

\* handle_move up to Game::make_move: the request is validated, from the
\* game lookup on under the games guard.  Square::from_str(..).unwrap()
\* follows the turn check and panics, under the guard, on text that names no
\* square.
HandleMove(s, mv) ==
    /\ StartHandler(s)
    /\ game_id[s] = EmptyId \/ mv = "empty" \/ Available("games")
    /\ IF IsSome(MoveRefusal(s, mv))
       THEN /\ Finish(s, <<ErrorMsg(s, game_id[s], MoveRefusal(s, mv)[1])>>)
            /\ UNCHANGED lock
       ELSE IF mv = "badsquare"
       THEN /\ Panic(s, <<>>)
            /\ lock' = Poison(s, {"games"})
       ELSE /\ out' = Outputs(s, <<>>, FALSE)
            /\ loc' = [loc EXCEPT ![s] = [NoLoc EXCEPT !.gid = game_id[s], !.mv = mv]]
            /\ lock' = Hold(s, {"games"})
            /\ pc' = [pc EXCEPT ![s] = "move_apply"]
    /\ UNCHANGED <<game_id, color, sessions, connections, games, delivered,
                   commits, nextGame, now, ticks>>

\* A GameState after a move whose stored active player is not updated.
AfterMoveKeepsActive(gs, to, player_color, t) ==
    LET moved == [gs EXCEPT !.game = [board |-> to,
                                       side_to_move |-> Opposite(gs.game.side_to_move)]]
        timed == IF IsSome(gs.last_move_time)
                 THEN DebitOnMove(moved, player_color, t - gs.last_move_time[1])
                 ELSE moved
    IN  [timed EXCEPT !.last_move_time = Some(t)]

\* GameState after an accepted move to board `to` at time t.
AfterMove(gs, to, player_color, t) ==
    LET moved == [gs EXCEPT !.game = [board |-> to,
                                       side_to_move |-> Opposite(gs.game.side_to_move)]]
        timed == IF IsSome(gs.last_move_time)
                 THEN DebitOnMove(moved, player_color, t - gs.last_move_time[1])
                 ELSE moved
    IN  [timed EXCEPT !.last_move_time = Some(t),
                      !.active_player = Some(moved.game.side_to_move)]

\* handle_move from Game::make_move on, under the games guard: a refused
\* move is an error; an accepted one changes the position, charges the
\* mover's clock and is handed to broadcast_to_game with the guard still held.
MoveApply(s) ==
    /\ pc[s] = "move_apply"
    /\ LET gid == loc[s].gid
           gs == games[gid]
           stamp == commits[gid] + 1
       IN  IF make_move(gs.game.board, loc[s].mv)
           THEN LET after == AfterMove(gs, loc[s].mv, SeatColor(gs, s)[1], now)
                IN  /\ games' = [games EXCEPT ![gid] = after]
                    /\ commits' = [commits EXCEPT ![gid] = stamp]
                    /\ loc' = [loc EXCEPT ![s].msg =
                                 Some([type |-> "move_made", game |-> gid,
                                       info |-> get_game_status(after.game, after.game_result),
                                       stamp |-> stamp])]
                    /\ pc' = [pc EXCEPT ![s] = "broadcast_connections"]
                    /\ UNCHANGED <<out, lock>>
           ELSE /\ Finish(s, Append(out[s], ErrorMsg(s, gid, "Invalid move")))
                /\ lock' = Release(lock, s, {"games"})
                /\ UNCHANGED <<games, commits>>
    /\ UNCHANGED <<game_id, color, sessions, connections, delivered, nextGame,
                   now, ticks, ops>>

\* -------------------------------------------------------- handle_get_moves

\* The squares a get_moves request names: on every board of the model e2
\* carries a white piece, e7 a black piece and e4 none.
Squares == {"e2", "e7", "e4"}

\* Board::color_on (and with it Board::piece_on).
color_on(board, sq) ==
    IF sq = "e2" THEN Some("white")
    ELSE IF sq = "e7" THEN Some("black")
    ELSE Nothing

Mv(source, dest) == [source |-> source, dest |-> dest]

\* MoveGen::new_legal: the legal moves of the side to move, in the order the
\* generator yields them.  The side to move of board "mate" has none; with
\* all the material on the board other pieces than the one on e2 / e7 can
\* move, with little material the piece is the king next to its queen.
new_legal(game) ==
    IF Board(game.board).status \in {"checkmate", "stalemate"} THEN <<>>
    ELSE IF game.side_to_move = "white"
    THEN IF game.board = "start"
         THEN <<Mv("g1", "f3"), Mv("e2", "e3"), Mv("g1", "h3"), Mv("e2", "e4")>>
         ELSE IF game.board = "KQvK"
         THEN <<Mv("e2", "e3"), Mv("d1", "d8"), Mv("e2", "f3")>>
         ELSE <<Mv("e2", "e3"), Mv("e2", "f3")>>
    ELSE IF game.board = "start"
         THEN <<Mv("e7", "e6"), Mv("g8", "f6"), Mv("e7", "e5")>>
         ELSE <<Mv("e7", "e8")>>

\* A move list that keeps the destinations of every legal move.
valid_movesAllSources(game, from_square) ==
    [i \in 1..Len(new_legal(game)) |-> new_legal(game)[i].dest]

\* The loop of handle_get_moves over the generator: the destinations of the
\* moves whose source is from_square, in generator order.
valid_moves(game, from_square) ==
    LET kept == SelectSeq(new_legal(game), LAMBDA m : m.source = from_square)
    IN  [i \in 1..Len(kept) |-> kept[i].dest]

\* A get_moves request: no origin square, text that names no square, or the
\* square named.
GetMovesInputs == {"missing", "badsquare"} \cup Squares

GetMovesRefusal(s, q) ==
    IF game_id[s] = EmptyId THEN Some("Not in a game")
    ELSE IF q = "missing" THEN Some("No from square provided")
    ELSE IF game_id[s] \notin DOMAIN games THEN Some("Game not found")
    ELSE IF color_on(games[game_id[s]].game.board, q) = Nothing
         THEN Some("No piece at that square")
    ELSE IF SeatColor(games[game_id[s]], s) # Some(games[game_id[s]].game.side_to_move)
         THEN Some("Not your turn")
    ELSE IF SeatColor(games[game_id[s]], s) # color_on(games[game_id[s]].game.board, q)
         THEN Some("Not your piece")
    ELSE Nothing

\* handle_get_moves: a direct reply, under the games guard from the game
\* lookup on; nothing is changed.  Square::from_str(..).unwrap() follows the
\* game lookup and panics, under the guard, on text that names no square.
HandleGetMoves(s, q) ==
    /\ StartHandler(s)
    /\ game_id[s] = EmptyId \/ q = "missing" \/ Available("games")
    /\ IF q = "badsquare" /\ game_id[s] \in DOMAIN games
       THEN /\ Panic(s, <<>>)
            /\ lock' = Poison(s, {"games"})
       ELSE /\ Finish(s, IF IsSome(GetMovesRefusal(s, q))
                         THEN <<ErrorMsg(s, game_id[s], GetMovesRefusal(s, q)[1])>>
                         ELSE <<Message(s, "available_moves", game_id[s],
                                        valid_moves(games[game_id[s]].game, q), 0)>>)
            /\ UNCHANGED lock
    /\ UNCHANGED <<game_id, color, sessions, connections, games,
                   delivered, commits, nextGame, now, ticks>>

\* -------------------------------------------------------- handle_time_sync

\* A time_sync that charges the clock whether or not both seats are taken.
SyncChargesAnySeats(gs) == IsSome(gs.last_move_time)

\* Whether handle_time_sync charges the clock of gs.
SyncCharges(gs) ==
    /\ IsSome(gs.last_move_time)
    /\ IsSome(gs.white_player)
    /\ IsSome(gs.black_player)

\* GameState after a time_sync at time t.
AfterSync(gs, t) ==
    IF SyncCharges(gs)
    THEN [DebitOnSync(gs, t - gs.last_move_time[1]) EXCEPT !.last_move_time = Some(t)]
    ELSE gs

\* handle_time_sync up to the broadcast: under the games guard the active
\* player's clock is charged; the guard is dropped before time_sync is
\* handed to broadcast_to_game.
HandleTimeSync(s, target) ==
    /\ StartHandler(s)
    /\ IF target = Nothing
       THEN /\ Finish(s, <<ErrorMsg(s, EmptyId, "Game ID is required")>>)
            /\ UNCHANGED <<games, commits>>
       ELSE /\ Available("games")
            /\ IF target[1] \notin DOMAIN games
               THEN /\ Finish(s, <<ErrorMsg(s, target[1], "Game not found")>>)
                    /\ UNCHANGED <<games, commits>>
               ELSE LET gid == target[1]
                        after == AfterSync(games[gid], now)
                        stamp == IF SyncCharges(games[gid]) THEN commits[gid] + 1 ELSE 0
                    IN  /\ games' = [games EXCEPT ![gid] = after]
                        /\ commits' = IF stamp > 0 THEN [commits EXCEPT ![gid] = stamp] ELSE commits
                        /\ out' = Outputs(s, <<>>, FALSE)
                        /\ loc' = [loc EXCEPT ![s] =
                                     [NoLoc EXCEPT !.gid = gid,
                                        !.msg = Some([type |-> "time_sync", game |-> gid,
                                                      info |-> get_game_status(after.game, after.game_result),
                                                      stamp |-> stamp])]]
                        /\ pc' = [pc EXCEPT ![s] = "broadcast_connections"]
    /\ UNCHANGED <<game_id, color, sessions, connections, lock, delivered,
                   nextGame, now, ticks>>

\* ---------------------------------------------------------- handle_message

\* A handle_message that forgets the session's game on an unknown kind.
HandleUnknownForgetsGame(s) ==
    /\ StartHandler(s)
    /\ Finish(s, <<ErrorMsg(s, EmptyId, "Unknown message type")>>)
    /\ game_id' = [game_id EXCEPT ![s] = EmptyId]
    /\ UNCHANGED <<color, sessions, connections, games, lock,
                   delivered, commits, nextGame, now, ticks>>

\* A message of an unknown kind: an error text to the sender.
HandleUnknown(s) ==
    /\ StartHandler(s)
    /\ Finish(s, <<ErrorMsg(s, EmptyId, "Unknown message type")>>)
    /\ UNCHANGED <<game_id, color, sessions, connections, games, lock,
                   delivered, commits, nextGame, now, ticks>>

\* ---------------------------------------------------------- poisoned guard

\* The guard the handler of s asks for next (None: it asks for none).
WantedGuard(s) ==
    CASE pc[s] \in {"create_games", "join_leave", "join_lookup",
                    "stop_remove_game", "stop_seats"} -> "games"
      [] pc[s] \in {"join_connections", "broadcast_connections"} -> "connections"
      [] pc[s] \in {"broadcast_sessions", "stop_sessions"} -> "sessions"
      [] OTHER -> None

\* lock().unwrap() on a poisoned guard: the handler of s panics, whether it
\* is under way and asks for the guard next, or starts on a request whose
\* first guard it is (a time_sync for the games guard, a create for the
\* connections guard).
PoisonedPanic(s) ==
    /\ \/ /\ WantedGuard(s) # None
          /\ lock[WantedGuard(s)] = Poisoned
          /\ UNCHANGED ops
       \/ /\ StartHandler(s)
          /\ \E l \in {"games", "connections"} : lock[l] = Poisoned
    /\ Panic(s, IF pc[s] = "idle" THEN <<>> ELSE out[s])
    /\ lock' = Poison(s, {})
    /\ UNCHANGED <<game_id, color, sessions, connections, games, delivered,
                   commits, nextGame, now, ticks>>

\* ------------------------------------------------------------ specification

Next ==
    \/ \E s \in Sessions : Started(s)
    \/ \E s \in Sessions, c \in CreateInputs : HandleCreate(s, c[1], c[2])
    \/ \E s \in Sessions : CreateGames(s)
    \/ \E s \in Sessions, g \in {Nothing} \cup {Some(x) : x \in GameIds} : HandleJoin(s, g)
    \/ \E s \in Sessions : JoinLeave(s)
    \/ \E s \in Sessions : JoinLookup(s)
    \/ \E s \in Sessions : JoinConnections(s)
    \/ \E s \in Sessions, mv \in MoveInputs : HandleMove(s, mv)
    \/ \E s \in Sessions : MoveApply(s)
    \/ \E s \in Sessions, q \in GetMovesInputs : HandleGetMoves(s, q)
    \/ \E s \in Sessions, g \in {Nothing} \cup {Some(x) : x \in GameIds} : HandleTimeSync(s, g)
    \/ \E s \in Sessions : BroadcastConnections(s)
    \/ \E s \in Sessions : BroadcastSessions(s)
    \/ \E s \in Sessions : HandleUnknown(s)
    \/ \E s \in Sessions : PoisonedPanic(s)
    \/ \E s \in Sessions : Stopping(s)
    \/ \E s \in Sessions : StopRemoveGame(s)
    \/ \E s \in Sessions : StopSeats(s)
    \/ \E s \in Sessions : StopSessions(s)
    \/ \E d \in TickSteps : Tick(d)

Spec == Init /\ [][Next]_vars

\* The requests of Next, and moves that checkmate.
NextMate ==
    \/ Next
    \/ \E s \in Sessions, mv \in MatedBoards : HandleMove(s, mv)

SpecMate == Init /\ [][NextMate]_vars

\* ------------------------------------------------------------------ claims

\* The games on whose connection list s is.
ListedIn(s) == {g \in DOMAIN connections : Contains(connections[g], s)}

\* C1: in every reachable state each session id is on the connection list
\* of at most one game.
C1_OneGamePerSession ==
    \A s \in Sessions : Cardinality(ListedIn(s)) <= 1

\* C2: in every reachable state and for every game, the white seat and the
\* black seat never hold the same session id.
C2_SeatsDistinct ==
    \A g \in DOMAIN games :
        IsSome(games[g].white_player) => games[g].white_player # games[g].black_player

\* Every session of D waits for a guard that a session of D holds.
WaitForEachOther(D) ==
    /\ D # {}
    /\ \A s \in D : WantedGuard(s) # None /\ lock[WantedGuard(s)] \in D

\* C3: no state is reachable in which handlers wait forever on each other's
\* registry guards.
C3_NoGuardDeadlock ==
    \A D \in SUBSET Sessions : ~WaitForEachOther(D)

\* C4: once a game's result is set, its result, both clocks, its position
\* and its color to move never change again.
C4_ResultFreezesGame ==
    [][\A g \in DOMAIN games \cap DOMAIN games' :
          IsSome(games[g].game_result) =>
             /\ games'[g].game_result = games[g].game_result
             /\ games'[g].white_time_ms = games[g].white_time_ms
             /\ games'[g].black_time_ms = games[g].black_time_ms
             /\ games'[g].game = games[g].game]_vars

\* The step starts a handler of s: no other session moves or pushes.
StartsHandler(s) ==
    /\ pc[s] = "idle"
    /\ ops' # ops
    /\ \A t \in Sessions \ {s} : pc'[t] = pc[t] /\ (out'[t] = out[t] \/ out'[t] = <<>>)

\* Session s takes no step of a handler and is pushed no new broadcast.
NothingPushedToOthers(s) ==
    /\ delivered' = delivered
    /\ \A t \in Sessions \ {s} : out'[t] = out[t] \/ out'[t] = <<>>

StartsStopping(s) ==
    /\ pc[s] = "idle"
    /\ pc'[s] \in {"stop_remove_game", "stop_seats", "stop_sessions"}

\* C6: when the session that is the last member of a game's connection list
\* disconnects, the connection-list entry of that game is removed (and with
\* it the GameState, so that a later join finds no game).
C6_LastMemberRemovesGame ==
    [][\A s \in Sessions, g \in DOMAIN connections :
          (StartsStopping(s) /\ connections[g] = <<s>>)
          => g \notin DOMAIN connections']_vars

\* C7: after the disconnect handler of s has completed, s is in no
\* registry: not in sessions, on no connection list, in no seat.
C7_ClosedSessionGone ==
    \A s \in Sessions :
        pc[s] = "closed" =>
            /\ s \notin sessions
            /\ ListedIn(s) = {}
            /\ \A g \in DOMAIN games :
                  games[g].white_player # Some(s) /\ games[g].black_player # Some(s)

C9_BroadcastsInCommitOrder ==
    [][\A r \in Sessions, g \in GameIds : delivered'[r][g] >= delivered[r][g]]_vars

\* Material with which no mate can be given: a bare king or a single minor.
CannotMate(k) == OnlyKing(k) \/ OneMinorOnly(k)

\* C10: when a clock runs out, the result is a draw if the opponent of the
\* flagged player cannot mate, and otherwise the opponent wins.
C10_FlagFallResult ==
    [][\A g \in DOMAIN games \cap DOMAIN games' :
          (games[g].game_result = Nothing /\ IsSome(games'[g].game_result))
          => LET flagged == games[g].game.side_to_move
                 opponent == IF flagged = "white"
                             THEN Board(games'[g].game.board).black
                             ELSE Board(games'[g].game.board).white
             IN  games'[g].game_result =
                    IF CannotMate(opponent) THEN Some("DrawDeclared")
                    ELSE IF flagged = "white" THEN Some("WhiteResigns")
                    ELSE Some("BlackResigns")]_vars

\* Session s is attached to a game in which its seat color (if it has a
\* seat) is not the color to move.
OutOfTurn(s) ==
    /\ game_id[s] \in DOMAIN games
    /\ SeatColor(games[game_id[s]], s) # Some(games[game_id[s]].game.side_to_move)

\* The move request of s is answered with the NotYourTurn error alone and
\* no GameState changes.
RefusedNotYourTurn(s) ==
    /\ out'[s] = <<ErrorMsg(s, game_id[s], "It's not your turn")>>
    /\ pc'[s] = "idle"
    /\ games' = games
    /\ NothingPushedToOthers(s)

\* C11 as stated: every move request (with origin and destination) of a
\* session whose seat color is not the color to move is answered with
\* NotYourTurn and changes no GameState.
C11_OutOfTurnAlwaysNotYourTurn ==
    [][\A s \in Sessions :
          (StartsHandler(s) /\ OutOfTurn(s))
          => \A mv \in MoveInputs \ {"empty"} :
                HandleMove(s, mv) => RefusedNotYourTurn(s)]_vars

\* C11, amended: a move request that carries an origin and a destination,
\* from a session whose seat color is not the color to move of its game,
\* is answered with NotYourTurn and changes no GameState, provided the game
\* carries no result (a game with a result answers GameOver first).
C11_OutOfTurnRefused ==
    [][\A s \in Sessions :
          (/\ StartsHandler(s)
           /\ OutOfTurn(s)
           /\ games[game_id[s]].game_result = Nothing)
          => \A mv \in MoveInputs \ {"empty"} :
                HandleMove(s, mv) => RefusedNotYourTurn(s)]_vars

\* C11 happens: a session out of turn in a game without result was refused.
C11_Witness ==
    \E s \in Sessions :
        /\ pc[s] = "idle"
        /\ OutOfTurn(s)
        /\ games[game_id[s]].game_result = Nothing
        /\ out[s] = <<ErrorMsg(s, game_id[s], "It's not your turn")>>

\* The move asks for a board with more material than the current one has:
\* no rules engine accepts it.
AddsMaterial(board, to) ==
    /\ to \in BoardNames
    /\ \/ ~KitLeq(Board(to).white, Board(board).white)
       \/ ~KitLeq(Board(to).black, Board(board).black)

\* C12: a move the rules engine rejects is answered with the one error
\* "Invalid move", pushed to the requester only, and changes no GameState.
C12_IllegalMoveChangesNothing ==
    [][\A s \in Sessions :
          (/\ MoveApply(s)
           /\ AddsMaterial(games[loc[s].gid].game.board, loc[s].mv))
          => /\ out'[s] = <<ErrorMsg(s, loc[s].gid, "Invalid move")>>
             /\ pc'[s] = "idle"
             /\ games' = games
             /\ lock'["games"] = None
             /\ NothingPushedToOthers(s)]_vars

\* C12 happens: a session was refused an illegal move.
C12_Witness ==
    \E s \in Sessions :
        /\ pc[s] = "idle"
        /\ game_id[s] \in DOMAIN games
        /\ out[s] = <<ErrorMsg(s, game_id[s], "Invalid move")>>

\* The step is the commit of an accepted move of s in game g.
AcceptsMove(s, g) ==
    /\ pc[s] = "move_apply"
    /\ loc[s].gid = g
    /\ pc'[s] = "broadcast_connections"

\* C13: every accepted move is made by the seat of the color to move and
\* changes the color to move to the other color, and no other step changes
\* the color to move of a game: accepted moves alternate white, black.
C13_TurnAlternates ==
    [][\A g \in DOMAIN games \cap DOMAIN games' :
          /\ \A s \in Sessions :
                AcceptsMove(s, g) =>
                   /\ SeatColor(games[g], s) = Some(games[g].game.side_to_move)
                   /\ games'[g].game.side_to_move = Opposite(games[g].game.side_to_move)
                   /\ games'[g].game.side_to_move # games[g].game.side_to_move
                   /\ games'[g].active_player = Some(games'[g].game.side_to_move)
          /\ games'[g].game.side_to_move # games[g].game.side_to_move
                => \E s \in Sessions : AcceptsMove(s, g)]_vars

\* C13 happens: white and then black had a move accepted, so that white is
\* to move again on a board that is no longer the initial one.
C13_Witness ==
    \E g \in DOMAIN games :
        /\ games[g].game.side_to_move = "white"
        /\ games[g].game.board = "KvK"
        /\ \E s \in Sessions : pc[s] = "broadcast_connections" /\ loc[s].gid = g
                                  /\ loc[s].msg[1].type = "move_made"
                                  /\ games[g].black_player = Some(s)

\* Remaining time of color c in gs.
Clock(gs, c) == IF c = "white" THEN gs.white_time_ms ELSE gs.black_time_ms

\* The multiple of 2^64 that the held integer x is below the u64 it holds.
Carry64(x) == IF High64(x) THEN 1 ELSE 0

\* The u64 `new` is the number r - e + inc (and not that number modulo
\* 2^64), for u64 r and inc and an elapsed time e <= r.
IsDebited(new, r, e, inc) ==
    /\ new = r - e + inc
    /\ Carry64(new) = Carry64(r) + Carry64(inc)

\* C14: an accepted move with last_move_time set and e ms elapsed leaves the
\* mover r - e + increment when r > e, and otherwise 0 and a result; the
\* mover's clock is never negative and the opponent's clock is unchanged;
\* with last_move_time unset neither clock changes.
C14_MoveClockDebit ==
    [][\A s \in Sessions, g \in DOMAIN games \cap DOMAIN games' :
          AcceptsMove(s, g) =>
             LET gs == games[g]
                 mover == SeatColor(gs, s)[1]
                 r == Clock(gs, mover)
             IN  /\ Clock(games'[g], Opposite(mover)) = Clock(gs, Opposite(mover))
                 /\ games'[g].last_move_time = Some(now)
                 /\ IF IsSome(gs.last_move_time)
                    THEN LET e == now - gs.last_move_time[1]
                         IN  IF Gt64(r, e)
                             THEN /\ IsDebited(Clock(games'[g], mover), r, e, gs.increment_ms)
                                  /\ games'[g].game_result = gs.game_result
                             ELSE /\ Clock(games'[g], mover) = 0
                                  /\ IsSome(games'[g].game_result)
                    ELSE /\ Clock(games'[g], mover) = r
                         /\ games'[g].game_result = gs.game_result]_vars

\* C15: a time_sync for a game with both seats taken, last_move_time set and
\* no result, processed when the time elapsed since last_move_time is at
\* least the remaining time of the color to move, sets that color's clock
\* to 0 and sets the result; no move of the flagged player is needed.
C15_TimeSyncFlags ==
    [][\A s \in Sessions, g \in DOMAIN games :
          (/\ HandleTimeSync(s, Some(g))
           /\ IsSome(games[g].white_player)
           /\ IsSome(games[g].black_player)
           /\ IsSome(games[g].last_move_time)
           /\ games[g].game_result = Nothing
           /\ ~Gt64(Clock(games[g], games[g].game.side_to_move),
                    now - games[g].last_move_time[1]))
          => /\ Clock(games'[g], games[g].game.side_to_move) = 0
             /\ IsSome(games'[g].game_result)
             /\ games'[g].game = games[g].game
             /\ Clock(games'[g], Opposite(games[g].game.side_to_move))
                   = Clock(games[g], Opposite(games[g].game.side_to_move))]_vars

\* C15 happens: a time_sync is about to broadcast that white, who is still
\* to move, lost on time (a flag-fall found by a move passes the turn on).
C15_Witness ==
    \E s \in Sessions, g \in DOMAIN games :
        /\ pc[s] = "broadcast_connections"
        /\ loc[s].msg = Some([type |-> "time_sync", game |-> g,
                              info |-> "black_wins", stamp |-> commits[g]])
        /\ games[g].game.side_to_move = "white"
        /\ games[g].white_time_ms = 0
        /\ games[g].game_result = Some("WhiteResigns")

\* C16: when the create handler of s completes, the new game has s in the
\* white seat, the black seat empty, white to move, no result and
\* last_move_time unset; its connection list is <<s>>; s is white in the new
\* game and has been pushed exactly one message, game_created with status
\* waiting_for_opponent; no other session is pushed anything.
C16_CreatePostcondition ==
    [][\A s \in Sessions :
          CreateGames(s) =>
             LET gid == loc[s].gid
             IN  /\ gid \in DOMAIN games' /\ gid \notin DOMAIN games
                 /\ games'[gid].white_player = Some(s)
                 /\ games'[gid].black_player = Nothing
                 /\ games'[gid].game = [board |-> "start", side_to_move |-> "white"]
                 /\ games'[gid].game_result = Nothing
                 /\ games'[gid].last_move_time = Nothing
                 /\ connections'[gid] = <<s>>
                 /\ game_id'[s] = gid /\ color'[s] = Some("white")
                 /\ out'[s] = <<Message(s, "game_created", gid, "waiting_for_opponent", 0)>>
                 /\ pc'[s] = "idle"
                 /\ NothingPushedToOthers(s)]_vars

\* C16 happens: a create has completed.
C16_Witness ==
    \E s \in Sessions :
        /\ pc[s] = "idle"
        /\ game_id[s] \in DOMAIN games
        /\ out[s] = <<Message(s, "game_created", game_id[s], "waiting_for_opponent", 0)>>
        /\ connections[game_id[s]] = <<s>>
        /\ games[game_id[s]].white_player = Some(s)

\* C17: when a join succeeds and both seats of the target game are thereby
\* taken, last_move_time is set in the resulting state and the joiner is
\* pushed "joined" with status in_progress.
C17_JoinStartsClock ==
    [][\A s \in Sessions :
          (/\ JoinConnections(s)
           /\ IsSome(games'[loc[s].gid].white_player)
           /\ IsSome(games'[loc[s].gid].black_player))
          => /\ games'[loc[s].gid].last_move_time = Some(now)
             /\ out'[s] = <<Message(s, "joined", loc[s].gid, "in_progress", 0)>>]_vars

\* C17 happens: a second session has joined, both seats are taken by
\* different sessions and the joiner holds its "joined" reply.
C17_Witness ==
    \E s \in Sessions, g \in DOMAIN games :
        /\ pc[s] = "broadcast_connections"
        /\ loc[s].msg[1].type = "player_joined"
        /\ loc[s].gid = g
        /\ games[g].black_player = Some(s)
        /\ IsSome(games[g].white_player) /\ games[g].white_player # Some(s)
        /\ IsSome(games[g].last_move_time)
        /\ out[s] = <<Message(s, "joined", g, "in_progress", 0)>>

\* The join of s is refused with the one error GameFull.
RefusedGameFull(s) ==
    /\ out'[s] = <<ErrorMsg(s, loc[s].gid, "Game is full")>>
    /\ pc'[s] = "idle"

\* C18: a join that finds its game takes the white seat when it is empty,
\* otherwise the black seat when it is empty, and leaves the other seat as
\* it is; it is refused with GameFull exactly when both seats are taken.
C18_SeatPolicy ==
    [][\A s \in Sessions :
          (JoinLookup(s) /\ loc[s].gid \in DOMAIN games) =>
             LET gs == games[loc[s].gid]
                 after == games'[loc[s].gid]
             IN  IF gs.white_player = Nothing
                 THEN /\ after.white_player = Some(s)
                      /\ after.black_player = gs.black_player
                      /\ color'[s] = Some("white")
                      /\ ~RefusedGameFull(s)
                 ELSE IF gs.black_player = Nothing
                 THEN /\ after.black_player = Some(s)
                      /\ after.white_player = gs.white_player
                      /\ color'[s] = Some("black")
                      /\ ~RefusedGameFull(s)
                 ELSE /\ RefusedGameFull(s)
                      /\ after = gs]_vars

\* C18 happens: a joiner was given the black seat of a game whose white seat
\* another session holds.
C18_Witness ==
    \E s \in Sessions :
        /\ pc[s] = "join_connections"
        /\ games[loc[s].gid].black_player = Some(s)
        /\ IsSome(games[loc[s].gid].white_player)
        /\ games[loc[s].gid].white_player # Some(s)
        /\ color[s] = Some("black")

\* C19: a join refused with GameFull leaves the target game's GameState
\* and connection list unchanged, and the requester ends with no current
\* game, no color, no seat in the target game and no entry in the target
\* game's connection list.
C19_GameFullLeavesNoTrace ==
    [][\A s \in Sessions :
          (/\ JoinLookup(s)
           /\ loc[s].gid \in DOMAIN games
           /\ IsSome(games[loc[s].gid].white_player)
           /\ IsSome(games[loc[s].gid].black_player))
          => LET gid == loc[s].gid
             IN  /\ RefusedGameFull(s)
                 /\ games'[gid] = games[gid]
                 /\ connections' = connections
                 /\ game_id'[s] = EmptyId
                 /\ color'[s] = Nothing
                 /\ SeatColor(games'[gid], s) = Nothing
                 /\ gid \in DOMAIN connections' => ~Contains(connections'[gid], s)]_vars

\* The sessions on the connection list of game g that have a delivery handle.
ListedWithHandle(g) == SelectSeq(connections[g], LAMBDA id : id \in sessions)

\* C20: the handler of an accepted move pushes exactly one move_made to
\* each session on the game's connection list that has a delivery handle,
\* the mover among them, and nothing else: the mover gets no direct reply.
C20_MoveMadeToEveryone ==
    [][\A s \in Sessions :
          /\ (BroadcastConnections(s) /\ loc[s].msg[1].type = "move_made")
                => /\ pc'[s] = "broadcast_sessions"
                   /\ out'[s] = <<>>
          /\ (BroadcastSessions(s) /\ loc[s].msg[1].type = "move_made")
                => LET m == loc[s].msg[1]
                       to == ListedWithHandle(m.game)
                   IN  /\ out'[s] = [i \in 1..Len(to) |->
                                       Message(to[i], "move_made", m.game, m.info, m.stamp)]
                       /\ \A i, j \in 1..Len(to) : to[i] = to[j] => i = j
                       /\ Contains(to, s)
                       /\ pc'[s] = "idle"]_vars

\* C20 happens: a mover has pushed move_made to itself and to the other
\* session of its game.
C20_Witness ==
    \E s \in Sessions :
        /\ pc[s] = "idle"
        /\ Len(out[s]) = 2
        /\ \A i \in 1..2 : out[s][i].type = "move_made" /\ out[s][i].game = game_id[s]
        /\ {out[s][1].to, out[s][2].to} = Sessions

\* The messages of sequence msgs addressed to session r.
PushedTo(msgs, r) == SelectSeq(msgs, LAMBDA m : m.to = r)

\* C21: when a successful join completes, the joiner has been pushed exactly
\* one message, the direct "joined" reply; the player_joined broadcast went
\* to other sessions of the connection list only.
C21_JoinerGetsOneMessage ==
    [][\A s \in Sessions :
          (/\ pc[s] = "broadcast_sessions"
           /\ loc[s].msg[1].type = "player_joined"
           /\ pc'[s] = "idle")
          => /\ PushedTo(out'[s], s) = <<Message(s, "joined", loc[s].gid, "in_progress", 0)>>
             /\ \A i \in 1..Len(out'[s]) :
                   out'[s][i].type = "player_joined" =>
                      /\ out'[s][i].to # s
                      /\ Contains(loc[s].ids, out'[s][i].to)]_vars

\* The step completes a handler of s that answers with an error (a handler
\* of one step leaves every position as it is and the record of s filled).
EndsInError(s) ==
    /\ pc[s] \notin Resting \/ (pc[s] = "idle" /\ ops' # ops /\ pc' = pc)
    /\ pc'[s] = "idle"
    /\ out'[s] # <<>>
    /\ out'[s][Len(out'[s])].type = "error"

\* C22: a handler that answers with an error has changed no registry and no
\* GameState: its last step changes none, and it has not left a game before.
C22_ErrorChangesNothing ==
    [][\A s \in Sessions :
          EndsInError(s) =>
             /\ connections' = connections
             /\ games' = games
             /\ sessions' = sessions
             /\ loc[s].old_game_id = EmptyId]_vars

\* C23: a move or get_moves request whose square text names no square is
\* answered with one error to the requester, whose actor stays in service;
\* no registry changes and every guard is left as usable as it was.
C23_BadSquareIsAnError ==
    [][\A s \in Sessions :
          (HandleMove(s, "badsquare") \/ HandleGetMoves(s, "badsquare"))
          => /\ pc'[s] = "idle"
             /\ Len(out'[s]) = 1
             /\ out'[s][1].type = "error"
             /\ out'[s][1].to = s
             /\ games' = games
             /\ connections' = connections
             /\ sessions' = sessions
             /\ \A l \in Guards : lock'[l] # Poisoned]_vars

\* The step ends a request of s in an error: the handler answers with an
\* error, or the request's square text names no square.
ErrorRequest(s) ==
    \/ EndsInError(s)
    \/ HandleMove(s, "badsquare")
    \/ HandleGetMoves(s, "badsquare")

\* C24: a request that ends in an error has produced exactly one message, an
\* error addressed to the requester, and nothing is pushed to another session.
C24_ErrorIsOneDirectMessage ==
    [][\A s \in Sessions :
          ErrorRequest(s) =>
             /\ Len(out'[s]) = 1
             /\ out'[s][1].type = "error"
             /\ out'[s][1].to = s
             /\ NothingPushedToOthers(s)]_vars

\* C25: a message of an unknown kind is answered with one error to its
\* sender, nothing is pushed to another session, and the sender's game id
\* and color and the three registries are left as they were.
C25_UnknownKindChangesNothing ==
    [][\A s \in Sessions :
          HandleUnknown(s) =>
             /\ out'[s] = <<ErrorMsg(s, EmptyId, "Unknown message type")>>
             /\ NothingPushedToOthers(s)
             /\ game_id'[s] = game_id[s]
             /\ color'[s] = color[s]
             /\ games' = games
             /\ connections' = connections
             /\ sessions' = sessions]_vars

\* C25 happens: a session seated in a game was answered the unknown-kind
\* error.
C25_Witness ==
    \E s \in Sessions :
        /\ pc[s] = "idle"
        /\ out[s] = <<ErrorMsg(s, EmptyId, "Unknown message type")>>
        /\ game_id[s] \in DOMAIN games
        /\ IsSome(SeatColor(games[game_id[s]], s))

\* The game_status values of a game that is over.
TerminalStatus == {"white_wins", "black_wins", "draw"}

\* C26: a game without result can accept a move.  An accepted move that
\* leaves the side to move checkmated or stalemated sets the game's result,
\* and the game_status it broadcasts is that of a finished game.
C26_MateEndsGame ==
    [][\A s \in Sessions, g \in DOMAIN games :
          (/\ AcceptsMove(s, g)
           /\ Board(games'[g].game.board).status \in {"checkmate", "stalemate"})
          => /\ IsSome(games'[g].game_result)
             /\ loc'[s].msg[1].type = "move_made"
             /\ loc'[s].msg[1].info \in TerminalStatus]_vars

\* The elements of a sequence.
Range(seq) == {seq[i] : i \in 1..Len(seq)}

\* The destinations of the legal moves of `game` that start on square sq.
LegalDestinations(game, sq) ==
    {m.dest : m \in {x \in Range(new_legal(game)) : x.source = sq}}

\* C27: the list a successful get_moves returns holds the destinations of
\* the legal moves of the current position that start on the requested
\* square, all of them and no other.
C27_MovesOfRequestedSquare ==
    [][\A s \in Sessions :
          (StartsHandler(s) /\ game_id[s] \in DOMAIN games)
          => \A sq \in Squares :
                (HandleGetMoves(s, sq) /\ out'[s][1].type = "available_moves")
                => Range(out'[s][1].info) = LegalDestinations(games[game_id[s]].game, sq)]_vars

\* C27 happens: a session was returned a list of several destinations while
\* the position has legal moves of other pieces as well.
C27_Witness ==
    \E s \in Sessions :
        /\ pc[s] = "idle"
        /\ Len(out[s]) = 1
        /\ out[s][1].type = "available_moves"
        /\ Len(out[s][1].info) > 1
        /\ game_id[s] \in DOMAIN games
        /\ Len(new_legal(games[game_id[s]].game)) > Len(out[s][1].info)

\* C28: a handler that asks for the connections guard does not hold the
\* games guard (connections is always taken first), and a broadcast asks for
\* the sessions guard holding the connections guard.
C28_ConnectionsBeforeGames ==
    \A s \in Sessions :
        /\ WantedGuard(s) = "connections" => lock["games"] # s
        /\ pc[s] = "broadcast_sessions" => lock["connections"] = s

\* C29: a handler that holds the games guard pushes no message, direct reply
\* or broadcast, before the guard is dropped.  (In each step of the model
\* that starts with the guard held, the code pushes before it drops it.)
C29_NoPushUnderGamesGuard ==
    [][\A s \in Sessions :
          (pc[s] \notin Resting /\ Len(out'[s]) > Len(out[s]))
          => lock["games"] # s]_vars

\* C30: whenever no handler is in progress (and none has panicked), the
\* games registry and the connection index have the same game ids and no
\* connection list is empty: a game that its last member left, by closing or
\* by joining another game, is gone from both.
C30_GamesAndListsAgree ==
    (\A s \in Sessions : pc[s] \in {"new", "idle", "closed"})
    => /\ \A g \in DOMAIN games : g \in DOMAIN connections /\ connections[g] # <<>>
       /\ \A g \in DOMAIN connections : connections[g] # <<>> /\ g \in DOMAIN games

\* C31: when a join assigns a seat of its target to a session that was in
\* another game, the session is on that game's connection list no longer and
\* holds none of its seats: it is never seated in both.
C31_LeaveBeforeSeat ==
    [][\A s \in Sessions :
          (/\ pc[s] = "join_lookup"
           /\ pc'[s] = "join_connections"
           /\ loc[s].old_game_id # EmptyId
           /\ loc[s].old_game_id # loc[s].gid)
          => LET old == loc[s].old_game_id
             IN  /\ IsSome(SeatColor(games'[loc[s].gid], s))
                 /\ old \in DOMAIN games' => SeatColor(games'[old], s) = Nothing
                 /\ old \in DOMAIN connections' => ~Contains(connections'[old], s)]_vars

\* C31 happens: a session that held a seat in another game has left it and
\* is about to be seated in its target.
C31_Witness ==
    \E s \in Sessions :
        /\ pc[s] = "join_lookup"
        /\ loc[s].old_game_id \in DOMAIN games
        /\ loc[s].old_game_id # loc[s].gid
        /\ loc[s].gid \in DOMAIN games
        /\ IsSome(FreeSeat(games[loc[s].gid]))

\* C32: the last_move_time of a game is set for the first time only by a
\* step that leaves both seats of the game occupied; before the second
\* player has joined no operation sets it.
C32_ClockStartsWithBothSeats ==
    [][\A g \in DOMAIN games \cap DOMAIN games' :
          (games[g].last_move_time = Nothing /\ IsSome(games'[g].last_move_time))
          => IsSome(games'[g].white_player) /\ IsSome(games'[g].black_player)]_vars

\* C33: a time_sync for an existing game changes no game's position, color
\* to move or seats; when a seat of its game is empty or last_move_time is
\* unset it changes no GameState at all, and in either case it hands a
\* time_sync message with the game's status to the broadcast.
C33_TimeSyncFrame ==
    [][\A s \in Sessions :
          StartsHandler(s)
          => \A g \in DOMAIN games :
                HandleTimeSync(s, Some(g))
                => /\ DOMAIN games' = DOMAIN games
                   /\ \A h \in DOMAIN games :
                         /\ games'[h].game = games[h].game
                         /\ games'[h].white_player = games[h].white_player
                         /\ games'[h].black_player = games[h].black_player
                   /\ (\/ games[g].white_player = Nothing
                       \/ games[g].black_player = Nothing
                       \/ games[g].last_move_time = Nothing) => games' = games
                   /\ pc'[s] = "broadcast_connections"
                   /\ loc'[s].msg[1].type = "time_sync"
                   /\ loc'[s].msg[1].game = g
                   /\ loc'[s].msg[1].info =
                         get_game_status(games'[g].game, games'[g].game_result)]_vars

\* C33 happens: time has passed since the clock of a game was started, a
\* seat of the game is empty, and a time_sync for it is on its way to the
\* broadcast without having charged anything.
C33_Witness ==
    \E s \in Sessions, g \in DOMAIN games :
        /\ pc[s] = "broadcast_connections"
        /\ loc[s].msg[1].type = "time_sync"
        /\ loc[s].msg[1].game = g
        /\ loc[s].msg[1].stamp = 0
        /\ games[g].black_player = Nothing \/ games[g].white_player = Nothing
        /\ IsSome(games[g].last_move_time)
        /\ now > games[g].last_move_time[1]

\* The two clocks and the result of a GameState.
ClocksAndResult(gs) == <<gs.white_time_ms, gs.black_time_ms, gs.game_result>>

\* C34: the clocks and the result of a game that exists before and after a
\* step change only in a step of handle_move or handle_time_sync for that
\* game; every step of create, join, get_moves, an unknown kind and
\* disconnect leaves them as they are.
C34_ClocksChangeOnlyOnMoveOrSync ==
    [][\A g \in DOMAIN games \cap DOMAIN games' :
          ClocksAndResult(games'[g]) # ClocksAndResult(games[g])
          => \E s \in Sessions :
                \/ pc[s] = "move_apply" /\ loc[s].gid = g /\ MoveApply(s)
                \/ pc[s] = "idle" /\ HandleTimeSync(s, Some(g))]_vars

\* A session that held a seat of a game with a move played has left it by
\* join or disconnect, and the game is still there.
C34_Witness ==
    \E s \in Sessions : \E g \in DOMAIN games :
        /\ pc[s] \in {"join_lookup", "stop_sessions"}
        /\ games[g].game.board # "start"
        /\ IsSome(games[g].last_move_time)
        /\ now > games[g].last_move_time[1]
        /\ SeatColor(games[g], s) = Nothing
        /\ \/ pc[s] = "join_lookup" /\ loc[s].old_game_id = g
           \/ pc[s] = "stop_sessions" /\ game_id[s] = g

\* C35: no connection list holds the same session id more than once.
C35_NoDuplicateInList ==
    \A g \in DOMAIN connections :
        \A i, j \in 1..Len(connections[g]) :
            connections[g][i] = connections[g][j] => i = j

\* A session has joined a game whose list already held it: it created the
\* game, created another one, and joined the first again.
C35_Witness ==
    \E s \in Sessions : \E g \in DOMAIN games \cap DOMAIN connections :
        /\ pc[s] = "broadcast_connections"
        /\ loc[s].msg[1].type = "player_joined"
        /\ loc[s].gid = g
        /\ games[g].white_player = Some(s)
        /\ games[g].black_player = Some(s)
        /\ Contains(connections[g], s)

\* Session t is inside a join of game g.
JoiningGame(t, g) ==
    /\ loc[t].gid = g
    /\ \/ pc[t] \in {"join_leave", "join_lookup", "join_connections"}
       \/ /\ pc[t] \in {"broadcast_connections", "broadcast_sessions"}
          /\ loc[t].msg[1].type = "player_joined"

\* C36: when two sessions are joining the same game at the same time, the
\* lookup and the seat assignment of each are one step under the games
\* guard: the seat a joiner is given was empty, the other seat is left as it
\* is, the other joiner is not touched; with one seat free the joiner that
\* comes first fills the game, and a joiner that finds it full is refused
\* with GameFull and changes nothing.
C36_ConcurrentJoinsAtomic ==
    [][\A s, t \in Sessions :
          (/\ s # t
           /\ pc[s] = "join_lookup"
           /\ loc[s].gid \in DOMAIN games
           /\ JoiningGame(t, loc[s].gid)
           /\ JoinLookup(s))
          => LET gs == games[loc[s].gid]
                 after == games'[loc[s].gid]
             IN  /\ lock["games"] = None
                 /\ pc'[t] = pc[t] /\ color'[t] = color[t] /\ game_id'[t] = game_id[t]
                 /\ IF IsSome(gs.white_player) /\ IsSome(gs.black_player)
                    THEN RefusedGameFull(s) /\ games' = games
                    ELSE /\ pc'[s] = "join_connections"
                         /\ lock'["games"] = s
                         /\ \/ /\ gs.white_player = Nothing
                               /\ after = [gs EXCEPT !.white_player = Some(s)]
                            \/ /\ gs.black_player = Nothing
                               /\ after = [gs EXCEPT !.black_player = Some(s)]
                         /\ (gs.white_player = Nothing) # (gs.black_player = Nothing)
                            => IsSome(after.white_player) /\ IsSome(after.black_player)]_vars

\* Two sessions are joining the same game, which had one seat free: one has
\* been given the seat and holds the games guard, the other is about to
\* look the game up and finds it full.
C36_Witness ==
    \E s, t \in Sessions :
        /\ s # t
        /\ pc[s] = "join_connections"
        /\ pc[t] = "join_lookup"
        /\ loc[s].gid = loc[t].gid
        /\ loc[s].gid \in DOMAIN games
        /\ lock["games"] = s
        /\ IsSome(SeatColor(games[loc[s].gid], s))
        /\ FreeSeat(games[loc[s].gid]) = Nothing

\* C37: in a game in the starting position with white to move, both seats
\* taken, no result and a running clock, last_move_time moves forward only
\* in a step of handle_move or handle_time_sync for that game, which charge
\* the elapsed time.
C37_LastTickAdvancesWithDebit ==
    [][\A g \in DOMAIN games \cap DOMAIN games' :
          (/\ games[g].game_result = Nothing
           /\ games[g].game = NewGame
           /\ IsSome(games[g].white_player) /\ IsSome(games[g].black_player)
           /\ IsSome(games[g].last_move_time)
           /\ IsSome(games'[g].last_move_time)
           /\ games'[g].last_move_time[1] > games[g].last_move_time[1])
          => \E s \in Sessions :
                \/ pc[s] = "move_apply" /\ loc[s].gid = g /\ MoveApply(s)
                \/ pc[s] = "idle" /\ HandleTimeSync(s, Some(g))]_vars

\* C38: a time_sync increases neither clock: the clock of the color to move
\* becomes the old value less the elapsed time when that is positive and 0
\* otherwise, with no increment added, or stays as it is when nothing is
\* charged; the other clock and the increment stay as they are.
C38_TimeSyncOnlyDebits ==
    [][\A s \in Sessions : StartsHandler(s)
          => \A g \in DOMAIN games : HandleTimeSync(s, Some(g))
                => LET gs == games[g]
                       after == games'[g]
                       mover == gs.game.side_to_move
                   IN  /\ after.increment_ms = gs.increment_ms
                       /\ Clock(after, Opposite(mover)) = Clock(gs, Opposite(mover))
                       /\ ~Gt64(Clock(after, mover), Clock(gs, mover))
                       /\ Clock(after, mover) =
                             IF SyncCharges(gs)
                             THEN IF Gt64(Clock(gs, mover), now - gs.last_move_time[1])
                                  THEN Clock(gs, mover) - (now - gs.last_move_time[1])
                                  ELSE 0
                             ELSE Clock(gs, mover)]_vars

\* A time_sync has charged 450000 ms to white, who keeps a positive clock,
\* in a game with a nonzero increment.
C38_Witness ==
    \E s \in Sessions : \E g \in DOMAIN games :
        /\ pc[s] = "broadcast_connections"
        /\ loc[s].msg[1].type = "time_sync"
        /\ loc[s].msg[1].game = g
        /\ loc[s].msg[1].stamp > 0
        /\ games[g].game.side_to_move = "white"
        /\ games[g].increment_ms # 0
        /\ games[g].white_time_ms = DefaultStartMinutes * SecondsPerMinute * MsPerSecond - 450000
        /\ games[g].black_time_ms = DefaultStartMinutes * SecondsPerMinute * MsPerSecond
        /\ games[g].last_move_time = Some(now)

\* C39: in every reachable state the stored active player of every game is
\* the side to move of its position.
C39_ActiveIsSideToMove ==
    \A g \in DOMAIN games :
        games[g].active_player = Some(games[g].game.side_to_move)

\* A move has been made and a time_sync charged after it: black is to move
\* and is the stored active player.
C39_Witness ==
    \E s \in Sessions : \E g \in DOMAIN games :
        /\ pc[s] = "broadcast_connections"
        /\ loc[s].msg[1].type = "time_sync"
        /\ loc[s].msg[1].game = g
        /\ loc[s].msg[1].stamp > 0
        /\ games[g].game.side_to_move = "black"
        /\ games[g].active_player = Some("black")

\* C40: when a join hands out a "joined" reply or a player_joined broadcast
\* with game_status in_progress, both seats of the game are taken and the
\* game has no result.
C40_InProgressMeansBothSeated ==
    [][\A s \in Sessions :
          (/\ pc[s] = "join_connections"
           /\ JoinConnections(s)
           /\ \/ \E i \in 1..Len(out'[s]) :
                    out'[s][i].type = "joined" /\ out'[s][i].info = "in_progress"
              \/ /\ loc'[s].msg[1].type = "player_joined"
                 /\ loc'[s].msg[1].info = "in_progress")
          => /\ IsSome(games'[loc[s].gid].white_player)
             /\ IsSome(games'[loc[s].gid].black_player)
             /\ games'[loc[s].gid].game_result = Nothing]_vars

====
